---- MODULE Spec2Model ----
(***************************************************************************)
(* A model of the product search and image analysis services:              *)
(*   - backend-core  crud/crud_product.py      CRUDProduct                 *)
(*   - backend-core  api/v1/endpoints/search.py ai_search                  *)
(*   - ai-service    main.py                   analyze_image               *)
(*                                                                         *)
(* Python's None / SQL NULL is the empty tuple, a present value x is the   *)
(* one-element tuple <<x>>.  Coordinates and thresholds are in tenths and   *)
(* distances are kept squared, so that  sqrt(d2) < t  is decided exactly   *)
(* as  d2 < t * t  (both sides are non-negative).                          *)
(***************************************************************************)
EXTENDS Integers, Sequences, FiniteSets, TLC

VARIABLES
  catalog,   \* the products table: product id |-> row
  last,      \* the CRUDProduct call being served and what it returned
  req,       \* the ai_search request being served
  an         \* the analyze_image request being served

vars == <<catalog, last, req, an>>

\* ---------------------------------------------------------------- bounds
\* Products the catalog may hold; also the largest limit a search asks for.
MaxItems == 2

\* ---------------------------------------------------------------- options
None == << >>
Some(x) == << x >>
IsNone(o) == o = << >>
Val(o) == o[1]

Min(a, b) == IF a < b THEN a ELSE b

\* ------------------------------------------------------------- the catalog
\* Embedding vectors (two coordinates stand for the 768 of the program).
Vectors == { <<0, 0>>, <<12, 0>> }

\* Query vectors a search is called with.
QueryVectors == { <<0, 0>>, <<4, 3>> }

\* Thresholds a search is called with, in tenths; ai_search passes 1.2.
AiSearchThreshold == 12
Thresholds == { 5, AiSearchThreshold }

\* The timestamp soft_delete writes.
Now == 1

\* The payloads create is called with: a product is born active and
\* not deleted, with or without an embedding.
ProductInputs ==
  LET shirts ==
  [ name : { Some(<<"s", "h", "o", "e">>) },
    description : { Some(<<"d">>) },
    price : { Some(1) },
    stock_quantity : { Some(1) },
    category : { Some("Fashion") },
    embedding : { None } \cup { Some(v) : v \in Vectors },
    is_active : { Some(TRUE) },
    deleted_at : { None } ]
  IN  shirts \cup { [ p EXCEPT !.price = Some(2), !.category = Some("Food") ] : p \in shirts }

\* The partial payloads update is called with: field |-> new value.
UpdateInputs ==
  { [ is_active |-> Some(b) ] : b \in BOOLEAN }
    \cup { [ embedding |-> Some(v) ] : v \in Vectors }

\* L2 distance of two vectors, squared.
l2_distance(u, v) == (u[1] - v[1]) * (u[1] - v[1]) + (u[2] - v[2]) * (u[2] - v[2])

\* A cutoff that lets the threshold itself through.
distance_le(d2, threshold) == d2 <= threshold * threshold

\* distance_col < threshold
distance_lt(d2, threshold) == d2 < threshold * threshold

\* `last` is the call of the request being served and the value it returned;
\* requests are served one at a time, each call in one transaction.
NoCall == [ op |-> "none" ]

\* A row as a query returns it: the product's fields and its id.
Row(cat, id) == [ id |-> id, p |-> cat[id] ]

\* CRUDProduct.get
get(cat, product_id) ==
  IF product_id \in DOMAIN cat /\ IsNone(cat[product_id].deleted_at)
  THEN Some(Row(cat, product_id))
  ELSE None

\* CRUDProduct.create
create(obj_in) ==
  /\ last = NoCall
  /\ Len(catalog) < MaxItems
  /\ catalog' = Append(catalog, obj_in)
  /\ last' = [ op |-> "create", ret |-> Some(Row(catalog', Len(catalog'))) ]
  /\ UNCHANGED <<req, an>>

\* CRUDProduct.update: setattr for every field of update_data.
update(id, update_data) ==
  /\ last = NoCall
  /\ id \in DOMAIN catalog
  /\ catalog' = [ catalog EXCEPT ![id] =
                    [ f \in DOMAIN catalog[id] |->
                        IF f \in DOMAIN update_data THEN update_data[f]
                        ELSE catalog[id][f] ] ]
  /\ last' = [ op |-> "update", ret |-> Some(Row(catalog', id)) ]
  /\ UNCHANGED <<req, an>>

\* CRUDProduct.soft_delete
soft_delete(product_id) ==
  /\ last = NoCall
  /\ product_id \in 1..MaxItems
  /\ catalog' = [ i \in DOMAIN catalog |->
                    IF i = product_id
                    THEN [ catalog[i] EXCEPT !.deleted_at = Some(Now) ]
                    ELSE catalog[i] ]
  /\ last' = [ op |-> "soft_delete", ret |-> get(catalog', product_id) ]
  /\ UNCHANGED <<req, an>>

\* The optional filters a search is called with: none, each one alone,
\* and all four together.
NoFilters ==
  [ min_price |-> None, max_price |-> None,
    exclude_id |-> None, exclude_category |-> None ]

Filters ==
  { NoFilters,
    [ NoFilters EXCEPT !.min_price = Some(2) ],
    [ NoFilters EXCEPT !.max_price = Some(1) ],
    [ NoFilters EXCEPT !.exclude_id = Some({1}) ],
    [ NoFilters EXCEPT !.exclude_category = Some({"Food"}) ],
    [ min_price |-> Some(1), max_price |-> Some(2),
      exclude_id |-> Some({2}), exclude_category |-> Some({"Food"}) ] }

\* The arguments a search is called with.
SearchArgs ==
  { [ query_vector |-> q, limit |-> n, threshold |-> t,
      min_price |-> f.min_price, max_price |-> f.max_price,
      exclude_id |-> f.exclude_id, exclude_category |-> f.exclude_category ] :
      q \in QueryVectors, n \in 1..MaxItems, t \in Thresholds, f \in Filters }

\* The WHERE clause search_by_vector builds.  A comparison with NULL is not
\* true in SQL, so a row whose compared column is NULL is filtered out.
where_clause(p, id, a) ==
  /\ p.is_active = Some(TRUE)
  /\ IsNone(p.deleted_at)
  /\ ~IsNone(p.embedding)
  /\ distance_lt(l2_distance(Val(p.embedding), a.query_vector), a.threshold)
  /\ IsNone(a.min_price) \/ (~IsNone(p.price) /\ Val(p.price) >= Val(a.min_price))
  /\ IsNone(a.max_price) \/ (~IsNone(p.price) /\ Val(p.price) <= Val(a.max_price))
  /\ (IsNone(a.exclude_id) \/ Val(a.exclude_id) = {}) \/ id \notin Val(a.exclude_id)
  /\ (IsNone(a.exclude_category) \/ Val(a.exclude_category) = {})
       \/ (~IsNone(p.category) /\ Val(p.category) \notin Val(a.exclude_category))

\* ORDER BY distance_col over the ids S: every order the database may
\* return, rows at equal distance in any order.
order_by(cat, S, q) ==
  { s \in [ 1..Cardinality(S) -> S ] :
      /\ \A i, j \in DOMAIN s : i # j => s[i] # s[j]
      /\ \A i, j \in DOMAIN s :
           i < j => l2_distance(Val(cat[s[i]].embedding), q)
                      <= l2_distance(Val(cat[s[j]].embedding), q) }

\* A statement that cuts the table to `limit` rows before it filters.
limit_then_filter(cat, a) ==
  LET first == { id \in DOMAIN cat : id <= a.limit }
      S == { id \in first : where_clause(cat[id], id, a) }
  IN  { [ i \in DOMAIN s |-> Row(cat, s[i]) ] : s \in order_by(cat, S, a.query_vector) }

\* The statement of search_by_vector, executed: filter, order, then limit.
\* The set of lists of rows the call may return.
execute_stmt(cat, a) ==
  LET S == { id \in DOMAIN cat : where_clause(cat[id], id, a) }
  IN  { [ i \in 1..Min(a.limit, Cardinality(S)) |-> Row(cat, s[i]) ] :
          s \in order_by(cat, S, a.query_vector) }

\* CRUDProduct.search_by_vector
search_by_vector(a) ==
  /\ last = NoCall
  /\ \E rows \in execute_stmt(catalog, a) :
       last' = [ op |-> "search_by_vector", args |-> a, ret |-> rows ]
  /\ UNCHANGED <<catalog, req, an>>

\* The caller takes the returned value and its request ends.
respond ==
  /\ last # NoCall
  /\ last' = NoCall
  /\ UNCHANGED <<catalog, req, an>>

NoReq == [ pc |-> "none" ]

InitCrud ==
  /\ catalog = << >>
  /\ last = NoCall
  /\ req = NoReq
  /\ an = NoReq

NextCrud ==
  \/ \E obj_in \in ProductInputs : create(obj_in)
  \/ \E id \in 1..MaxItems, update_data \in UpdateInputs : update(id, update_data)
  \/ \E id \in 1..MaxItems : soft_delete(id)
  \/ \E a \in SearchArgs : search_by_vector(a)
  \/ respond

SpecCrud == InitCrud /\ [][NextCrud]_vars
\* ---------------------------------------------------------------- ai_search
\* Strings are tuples of characters.
IsSpace(c) == c \in { " ", "\n", "\t" }

RECURSIVE lstrip(_)
lstrip(str) ==
  IF str # << >> /\ IsSpace(Head(str)) THEN lstrip(Tail(str)) ELSE str

RECURSIVE rstrip(_)
rstrip(str) ==
  IF str # << >> /\ IsSpace(str[Len(str)])
  THEN rstrip(SubSeq(str, 1, Len(str) - 1))
  ELSE str

\* str.strip()
strip(str) == rstrip(lstrip(str))

INTERNAL == Some("INTERNAL")
EXTERNAL == Some("EXTERNAL")

\* A JSON value of the key "vector": null or a list of numbers.
JsonNull == [ t |-> "null", v |-> << >> ]
JsonList(v) == [ t |-> "list", v |-> v ]

\* `not x` for such a value.
falsy(x) == x.t = "null" \/ x.v = << >>

\* What the POST to /determine-path may come back with: an httpx exception,
\* or a response with a status and a body (no JSON, a JSON list, or a JSON
\* object whose "path" is missing, null or a string).
PathResponses ==
  { [ exc |-> e, status_code |-> 0, body |-> "none", path |-> None ] :
      e \in { "ConnectError", "ReadTimeout" } }
  \cup { [ exc |-> "none", status_code |-> 500, body |-> "object",
           path |-> Some(EXTERNAL) ] }
  \cup { [ exc |-> "none", status_code |-> 200, body |-> b, path |-> None ] :
           b \in { "not_json", "list" } }
  \cup { [ exc |-> "none", status_code |-> 200, body |-> "object", path |-> pv ] :
           pv \in { None, Some(None), Some(INTERNAL), Some(EXTERNAL), Some(Some("FOO")) } }

\* What the POST to /process-internal or /process-external may come back with.
AiDataResponses ==
  { [ exc |-> e, status_code |-> 0, body |-> "none", vector |-> None, reason |-> None ] :
      e \in { "ConnectError", "ReadTimeout" } }
  \cup { [ exc |-> "none", status_code |-> 500, body |-> "object",
           vector |-> None, reason |-> None ] }
  \cup { [ exc |-> "none", status_code |-> 200, body |-> b,
           vector |-> None, reason |-> None ] : b \in { "not_json", "list" } }
  \cup { [ exc |-> "none", status_code |-> 200, body |-> "object",
           vector |-> v, reason |-> r ] :
           v \in { None, Some(JsonNull), Some(JsonList(<< >>)) }
                   \cup { Some(JsonList(q)) : q \in QueryVectors },
           r \in { None, Some(<<"r">>) } }

NoPathResponse == [ exc |-> "none", status_code |-> 0, body |-> "none", path |-> None ]
NoAiDataResponse ==
  [ exc |-> "none", status_code |-> 0, body |-> "none", vector |-> None, reason |-> None ]

\* raise HTTPException(status_code, detail); the Korean detail texts of the
\* program are written in English.
HTTPException(status_code, detail) ==
  [ kind |-> "HTTPException", status_code |-> status_code, detail |-> detail,
    answer |-> << >>, products |-> << >>, search_path |-> None ]

\* An exception no handler of ai_search catches: the framework answers 500.
Unhandled ==
  [ kind |-> "unhandled", status_code |-> 500, detail |-> "Internal Server Error",
    answer |-> << >>, products |-> << >>, search_path |-> None ]

NoResponse ==
  [ kind |-> "none", status_code |-> 0, detail |-> "",
    answer |-> << >>, products |-> << >>, search_path |-> None ]

DefaultReason == <<"AI search result.">>

\* Step 1: the uploaded image is read and encoded.
read_image ==
  /\ req.pc = "image"
  /\ IF req.image_file = "unreadable"
     THEN req' = [ req EXCEPT !.pc = "done",
                     !.response = HTTPException(400, "cannot read the image file") ]
     ELSE req' = [ req EXCEPT !.pc = "path",
                     !.image_b64 = IF req.image_file = "none" THEN None ELSE Some("b64") ]
  /\ UNCHANGED <<catalog, last, an>>

\* Step A: search_path after the try block around the /determine-path call.
\* Any exception (transport, timeout, json() of a body that is no JSON,
\* .get of a body that is no object) is passed over.
path_after(r) ==
  IF r.exc # "none" THEN INTERNAL
  ELSE IF r.status_code # 200 THEN INTERNAL
  ELSE IF r.body # "object" THEN INTERNAL
  ELSE IF IsNone(r.path) THEN INTERNAL
  ELSE Val(r.path)

determine_path ==
  /\ req.pc = "path"
  /\ \E r \in PathResponses :
       req' = [ req EXCEPT !.pc = "process", !.path_response = r,
                           !.search_path = path_after(r) ]
  /\ UNCHANGED <<catalog, last, an>>

ai_endpoint(search_path) ==
  IF search_path = EXTERNAL THEN "/process-external" ELSE "/process-internal"

\* A handler that answers every failure of the call with 503.
process_error_all_503(r) ==
  IF r.exc # "none" \/ r.status_code # 200 \/ r.body # "object"
  THEN HTTPException(503, "AI service connection failed")
  ELSE NoResponse

\* Step B: the error the try block around the /process-* call ends with,
\* NoResponse when it ends with none.
process_error(r) ==
  IF r.exc # "none" THEN HTTPException(503, "AI service connection failed")
  ELSE IF r.status_code # 200 THEN HTTPException(502, "AI analysis service error")
  ELSE IF r.body # "object" THEN Unhandled
  ELSE NoResponse

process ==
  /\ req.pc = "process"
  /\ \E r \in AiDataResponses :
       LET err == process_error(r) IN
         IF err # NoResponse
         THEN req' = [ req EXCEPT !.pc = "done", !.ai_data_response = r,
                         !.endpoint = ai_endpoint(req.search_path),
                         !.response = err ]
         ELSE req' = [ req EXCEPT !.pc = "check", !.ai_data_response = r,
                         !.endpoint = ai_endpoint(req.search_path),
                         !.vector = IF IsNone(r.vector) THEN JsonList(<< >>)
                                    ELSE Val(r.vector),
                         !.reason = IF IsNone(r.reason) THEN req.reason
                                    ELSE Val(r.reason) ]
  /\ UNCHANGED <<catalog, last, an>>

\* Step 3: an empty vector ends the request.
check_vector ==
  /\ req.pc = "check"
  /\ IF falsy(req.vector)
     THEN req' = [ req EXCEPT !.pc = "done",
                     !.response = HTTPException(500, "AI vector generation failed (Empty Vector)") ]
     ELSE req' = [ req EXCEPT !.pc = "search" ]
  /\ UNCHANGED <<catalog, last, an>>

\* Step 4: the arguments ai_search calls search_by_vector with.
ai_search_args(vector, limit) ==
  [ query_vector |-> vector, limit |-> limit, threshold |-> AiSearchThreshold,
    min_price |-> None, max_price |-> None,
    exclude_id |-> None, exclude_category |-> None ]

\* Step 4: the search returns rows, or the database raises.
db_search ==
  /\ req.pc = "search"
  /\ \/ \E rows \in execute_stmt(catalog, ai_search_args(req.vector.v, req.limit)) :
          req' = [ req EXCEPT !.pc = "sanitize", !.db = "returned", !.results = Some(rows) ]
     \/ req' = [ req EXCEPT !.pc = "done", !.db = "raised",
                   !.response = HTTPException(500, "database vector search error") ]
  /\ UNCHANGED <<catalog, last, an>>

\* Step 5: the name a row is answered with.
PlaceholderName == <<"untitled product">>

clean_name(p) ==
  IF IsNone(p.name) \/ Val(p.name) = << >> \/ Len(strip(Val(p.name))) < 2
  THEN PlaceholderName
  ELSE Val(p.name)

\* x or default, for a nullable number
or_zero(x) == IF IsNone(x) \/ Val(x) = 0 THEN 0 ELSE Val(x)

\* Step 5: the dictionary handed to ProductResponse.model_validate.
p_dict(row) ==
  [ id |-> row.id,
    name |-> clean_name(row.p),
    description |-> IF IsNone(row.p.description) THEN << >> ELSE Val(row.p.description),
    price |-> or_zero(row.p.price),
    stock_quantity |-> or_zero(row.p.stock_quantity),
    category |-> IF IsNone(row.p.category) \/ Val(row.p.category) = ""
                 THEN "Etc" ELSE Val(row.p.category),
    embedding |-> row.p.embedding,
    is_active |-> row.p.is_active ]

\* ProductResponse.model_validate succeeds: the public projection has a
\* non-empty name and non-negative price and stock.
model_validate_ok(d) ==
  /\ d.name # << >>
  /\ d.price >= 0
  /\ d.stock_quantity >= 0

\* The list comprehension the loop replaced: one invalid row fails them all.
validate_all(results) ==
  IF \E i \in DOMAIN results : ~model_validate_ok(p_dict(results[i]))
  THEN << >>
  ELSE [ i \in DOMAIN results |-> p_dict(results[i]) ]

\* Step 5: the loop over results; a row that fails validation is skipped.
RECURSIVE sanitize(_)
sanitize(results) ==
  IF results = << >> THEN << >>
  ELSE LET d == p_dict(Head(results)) IN
         IF model_validate_ok(d)
         THEN <<d>> \o sanitize(Tail(results))
         ELSE sanitize(Tail(results))

sanitize_results ==
  /\ req.pc = "sanitize"
  /\ req' = [ req EXCEPT !.pc = "return",
                !.product_responses = sanitize(Val(req.results)) ]
  /\ UNCHANGED <<catalog, last, an>>

\* The return statement of ai_search.
return_success ==
  /\ req.pc = "return"
  /\ req' = [ req EXCEPT !.pc = "done",
                !.response = [ kind |-> "SUCCESS", status_code |-> 200, detail |-> "",
                               answer |-> req.reason,
                               products |-> req.product_responses,
                               search_path |-> req.search_path ] ]
  /\ UNCHANGED <<catalog, last, an>>

\* The rows the products table may hold when a search request arrives.
StoredProduct ==
  [ name |-> Some(<<"s", "h", "o", "e">>), description |-> Some(<<"d">>),
    price |-> Some(1), stock_quantity |-> Some(1), category |-> Some("Fashion"),
    embedding |-> Some(<<0, 0>>), is_active |-> Some(TRUE), deleted_at |-> None ]

StoredProducts ==
  { StoredProduct,
    [ StoredProduct EXCEPT !.name = None, !.description = None, !.price = None,
        !.stock_quantity = None, !.category = None, !.embedding = Some(<<12, 0>>) ],
    [ StoredProduct EXCEPT !.name = Some(<<" ", "a", " ">>) ],
    [ StoredProduct EXCEPT !.price = Some(-1) ] }

\* Rows the products table holds in the search model.
MaxRows == 3

Catalogs == UNION { [ 1..n -> StoredProducts ] : n \in 0..MaxRows }

InitAiSearch ==
  /\ catalog \in Catalogs
  /\ last = NoCall
  /\ an = NoReq
  /\ \E image_file \in { "none", "ok", "unreadable" }, limit \in { 1, MaxRows } :
       req = [ pc |-> "image", image_file |-> image_file, limit |-> limit,
               image_b64 |-> None, search_path |-> INTERNAL, reason |-> DefaultReason,
               vector |-> JsonList(<< >>), path_response |-> NoPathResponse,
               ai_data_response |-> NoAiDataResponse, endpoint |-> "",
               db |-> "not_called", results |-> None, product_responses |-> << >>,
               response |-> NoResponse ]

NextAiSearch ==
  \/ read_image
  \/ determine_path
  \/ process
  \/ check_vector
  \/ db_search
  \/ sanitize_results
  \/ return_success

SpecAiSearch == InitAiSearch /\ [][NextAiSearch]_vars

\* ------------------------------------------------------------ analyze_image
\* A text is a tuple of lexemes.  A lexeme is one character, or one of the
\* words below taken whole; Python's len counts the characters of each.
WordLen(w) ==
  CASE w = "cannot" -> 6
    [] w = "assist" -> 6
    [] w = "json" -> 4
    [] w = "JSON" -> 4
    [] w = "null" -> 4
    [] w = "TICKS" -> 3
    [] w = "sangpummyeong" -> 3
    [] w \in { "name", "category", "description", "price" } -> 4
    [] OTHER -> 1

RECURSIVE py_len(_)
py_len(text) == IF text = << >> THEN 0 ELSE WordLen(Head(text)) + py_len(Tail(text))

\* The three-syllable Korean word for "product name" of the prompt's example.
NameToken == "sangpummyeong"

\* Three backticks, the markdown fence.
Ticks == "TICKS"

\* pat occurs in text at position i
occurs_at(text, pat, i) ==
  /\ i + Len(pat) - 1 <= Len(text)
  /\ \A k \in 1..Len(pat) : text[i + k - 1] = pat[k]

\* pat in text
contains(text, pat) == \E i \in 1..Len(text) : occurs_at(text, pat, i)

Digits == << "0", "1", "2", "3", "4", "5", "6", "7", "8", "9" >>

IsDigit(c) == \E d \in 1..10 : Digits[d] = c

DigitVal(c) == (CHOOSE d \in 1..10 : Digits[d] = c) - 1

\* int(s) for a non-empty string of digits
RECURSIVE int_of_digits(_)
int_of_digits(ds) ==
  IF ds = << >> THEN 0
  ELSE 10 * int_of_digits(SubSeq(ds, 1, Len(ds) - 1)) + DigitVal(ds[Len(ds)])

\* str(n) for n >= 0
RECURSIVE str_of_nat(_)
str_of_nat(n) ==
  IF n < 10 THEN << Digits[n + 1] >>
  ELSE Append(str_of_nat(n \div 10), Digits[(n % 10) + 1])

\* str(n) for an int
str_of_int(n) == IF n < 0 THEN <<"-">> \o str_of_nat(0 - n) ELSE str_of_nat(n)

\* JSON values as Python holds them.  items holds the elements of a list
\* (their k empty) or the key/value pairs of a dict, in order.
JNull == [ t |-> "null", s |-> << >>, n |-> 0, items |-> << >> ]
JStr(s) == [ t |-> "str", s |-> s, n |-> 0, items |-> << >> ]
JInt(n) == [ t |-> "int", s |-> << >>, n |-> n, items |-> << >> ]
JList(vs) ==
  [ t |-> "list", s |-> << >>, n |-> 0,
    items |-> [ i \in DOMAIN vs |-> [ k |-> << >>, v |-> vs[i] ] ] ]
JDict(items) == [ t |-> "dict", s |-> << >>, n |-> 0, items |-> items ]

\* json.loads: the result of a parse step is [ ok, val, pos ], pos the
\* position after what was read.  Numbers are integers.
ParseError == [ ok |-> FALSE, val |-> JNull, pos |-> 0 ]
Parsed(val, pos) == [ ok |-> TRUE, val |-> val, pos |-> pos ]

IsJsonSpace(c) == c \in { " ", "\n", "\t", "\r" }

RECURSIVE skip_ws(_, _)
skip_ws(text, i) ==
  IF i <= Len(text) /\ IsJsonSpace(text[i]) THEN skip_ws(text, i + 1) ELSE i

\* the position of the first `"` at or after i, Len(text) + 1 if none
RECURSIVE find_quote(_, _)
find_quote(text, i) ==
  IF i > Len(text) \/ text[i] = "\"" THEN i ELSE find_quote(text, i + 1)

\* a string literal at i (no escapes; a control character is an error)
parse_string(text, i) ==
  IF i > Len(text) \/ text[i] # "\"" THEN ParseError
  ELSE LET j == find_quote(text, i + 1) IN
         IF j > Len(text) THEN ParseError
         ELSE IF \E k \in (i + 1)..(j - 1) : text[k] \in { "\n", "\t", "\r" }
         THEN ParseError
         ELSE Parsed(JStr(SubSeq(text, i + 1, j - 1)), j + 1)

\* the position after the run of digits that starts at i
RECURSIVE digits_end(_, _)
digits_end(text, i) ==
  IF i <= Len(text) /\ IsDigit(text[i]) THEN digits_end(text, i + 1) ELSE i

\* an integer literal at i: -? (0 | [1-9][0-9]*)
parse_number(text, i) ==
  LET neg == i <= Len(text) /\ text[i] = "-"
      b == IF neg THEN i + 1 ELSE i
  IN  IF b > Len(text) \/ ~IsDigit(text[b]) THEN ParseError
      ELSE LET e == IF text[b] = "0" THEN b + 1 ELSE digits_end(text, b)
               m == int_of_digits(SubSeq(text, b, e - 1))
           IN  Parsed(JInt(IF neg THEN 0 - m ELSE m), e)

RECURSIVE parse_value(_, _)
RECURSIVE parse_members(_, _, _)
RECURSIVE parse_elements(_, _, _)

\* the pairs of an object from position i on, acc the pairs read so far
parse_members(text, i, acc) ==
  LET key == parse_string(text, i) IN
    IF ~key.ok THEN ParseError
    ELSE LET c == skip_ws(text, key.pos) IN
      IF c > Len(text) \/ text[c] # ":" THEN ParseError
      ELSE LET val == parse_value(text, skip_ws(text, c + 1)) IN
        IF ~val.ok THEN ParseError
        ELSE LET e == skip_ws(text, val.pos)
                 acc2 == Append(acc, [ k |-> key.val.s, v |-> val.val ])
             IN  IF e > Len(text) THEN ParseError
                 ELSE IF text[e] = "}" THEN Parsed(JDict(acc2), e + 1)
                 ELSE IF text[e] = "," THEN parse_members(text, skip_ws(text, e + 1), acc2)
                 ELSE ParseError

\* the elements of a list from position i on, acc the elements read so far
parse_elements(text, i, acc) ==
  LET val == parse_value(text, i) IN
    IF ~val.ok THEN ParseError
    ELSE LET e == skip_ws(text, val.pos)
             acc2 == Append(acc, val.val)
         IN  IF e > Len(text) THEN ParseError
             ELSE IF text[e] = "]" THEN Parsed(JList(acc2), e + 1)
             ELSE IF text[e] = "," THEN parse_elements(text, skip_ws(text, e + 1), acc2)
             ELSE ParseError

parse_value(text, i) ==
  IF i > Len(text) THEN ParseError
  ELSE IF text[i] = "{" THEN
         LET j == skip_ws(text, i + 1) IN
           IF j <= Len(text) /\ text[j] = "}" THEN Parsed(JDict(<< >>), j + 1)
           ELSE parse_members(text, j, << >>)
  ELSE IF text[i] = "[" THEN
         LET j == skip_ws(text, i + 1) IN
           IF j <= Len(text) /\ text[j] = "]" THEN Parsed(JList(<< >>), j + 1)
           ELSE parse_elements(text, j, << >>)
  ELSE IF text[i] = "\"" THEN parse_string(text, i)
  ELSE IF text[i] = "null" THEN Parsed(JNull, i + 1)
  ELSE parse_number(text, i)

\* json.loads(text): the value, or a JSONDecodeError
json_loads(text) ==
  LET r == parse_value(text, skip_ws(text, 1)) IN
    IF r.ok /\ skip_ws(text, r.pos) = Len(text) + 1
    THEN [ ok |-> TRUE, val |-> r.val ]
    ELSE [ ok |-> FALSE, val |-> JNull ]

\* str(v) and repr(v) of a parsed value
RECURSIVE py_repr(_)
RECURSIVE py_join(_, _)
py_join(items, isDict) ==
  IF items = << >> THEN << >>
  ELSE LET it == Head(items)
           one == IF isDict
                  THEN <<"'">> \o it.k \o <<"'", ":", " ">> \o py_repr(it.v)
                  ELSE py_repr(it.v)
       IN  IF Tail(items) = << >> THEN one
           ELSE one \o <<",", " ">> \o py_join(Tail(items), isDict)

py_repr(v) ==
  CASE v.t = "str" -> <<"'">> \o v.s \o <<"'">>
    [] v.t = "int" -> str_of_int(v.n)
    [] v.t = "null" -> <<"N", "o", "n", "e">>
    [] v.t = "list" -> <<"[">> \o py_join(v.items, FALSE) \o <<"]">>
    [] v.t = "dict" -> <<"{">> \o py_join(v.items, TRUE) \o <<"}">>

py_str(v) == IF v.t = "str" THEN v.s ELSE py_repr(v)

\* not v
py_falsy(v) ==
  CASE v.t = "str" -> v.s = << >>
    [] v.t = "int" -> v.n = 0
    [] v.t = "null" -> TRUE
    [] OTHER -> v.items = << >>

\* product_data.get(key): the value of the last pair with that key
RECURSIVE dict_get(_, _, _)
dict_get(items, key, default) ==
  IF items = << >> THEN default
  ELSE IF items[Len(items)].k = <<key>> THEN Some(items[Len(items)].v)
  ELSE dict_get(SubSeq(items, 1, Len(items) - 1), key, default)

\* re.search(r"\{[\s\S]*\}", text): from the first { to the last }
first_index(text, c) ==
  IF \E i \in DOMAIN text : text[i] = c
  THEN CHOOSE i \in DOMAIN text : text[i] = c /\ \A j \in 1..(i - 1) : text[j] # c
  ELSE 0

last_index(text, c) ==
  IF \E i \in DOMAIN text : text[i] = c
  THEN CHOOSE i \in DOMAIN text : text[i] = c /\ \A j \in (i + 1)..Len(text) : text[j] # c
  ELSE 0

re_search(text) ==
  LET i == first_index(text, "{")
      j == last_index(text, "}")
  IN  IF i > 0 /\ j > i THEN Some(SubSeq(text, i, j)) ELSE None

\* re.sub(r"TICKSjson|TICKS", "", text)
RECURSIVE re_sub_fence(_)
re_sub_fence(text) ==
  IF text = << >> THEN << >>
  ELSE IF Head(text) = Ticks THEN
         IF Len(text) >= 2 /\ text[2] = "json"
         THEN re_sub_fence(SubSeq(text, 3, Len(text)))
         ELSE re_sub_fence(Tail(text))
  ELSE <<Head(text)>> \o re_sub_fence(Tail(text))

\* re.sub(r"[^0-9]", "", text)
RECURSIVE re_sub_nondigits(_)
re_sub_nondigits(text) ==
  IF text = << >> THEN << >>
  ELSE IF IsDigit(Head(text)) THEN <<Head(text)>> \o re_sub_nondigits(Tail(text))
  ELSE re_sub_nondigits(Tail(text))

\* filename.split('.')[0]
RECURSIVE split_dot_first(_)
split_dot_first(name) ==
  IF name = << >> \/ Head(name) = "." THEN << >>
  ELSE <<Head(name)>> \o split_dot_first(Tail(name))

\* json.dumps of an object with the given optional fields, as a model that
\* follows the prompt writes it.
RECURSIVE dumps_value(_)
RECURSIVE dumps_list(_)
dumps_list(items) ==
  IF items = << >> THEN << >>
  ELSE dumps_value(Head(items).v)
         \o (IF Tail(items) = << >> THEN << >> ELSE <<",", " ">> \o dumps_list(Tail(items)))

dumps_value(v) ==
  CASE v.t = "str" -> <<"\"">> \o v.s \o <<"\"">>
    [] v.t = "int" -> str_of_int(v.n)
    [] v.t = "null" -> <<"null">>
    [] v.t = "list" -> <<"[">> \o dumps_list(v.items) \o <<"]">>

RECURSIVE dumps_pairs(_)
dumps_pairs(items) ==
  IF items = << >> THEN << >>
  ELSE <<"\"">> \o Head(items).k \o <<"\"", ":", " ">> \o dumps_value(Head(items).v)
         \o (IF Tail(items) = << >> THEN << >> ELSE <<",", " ">> \o dumps_pairs(Tail(items)))

dumps(d) == <<"{">> \o dumps_pairs(d.items) \o <<"}">>

\* The dict with the present ones of the four fields, in the prompt's order.
ObjectOf(o) ==
  LET pair(key, f) == IF IsNone(f) THEN << >> ELSE << [ k |-> <<key>>, v |-> Val(f) ] >>
  IN  JDict(pair("name", o.name) \o pair("category", o.category)
              \o pair("description", o.description) \o pair("price", o.price))

LongDescription == <<"a", "b", "c", "d", "e", "f", "g", "h", "i", "j">>

\* The objects a model answer may carry: every field absent or present,
\* of the expected type or not.
ModelObjects ==
  [ name : { None, Some(JStr(<<"R", "e", "d">>)), Some(JStr(<<NameToken>>)),
             Some(JInt(5)), Some(JList(<<JStr(<<"a">>)>>)),
             Some(JStr(<<"a", Ticks, "b">>)) },
    category : { None, Some(JStr(<<"F", "o", "o", "d">>)), Some(JNull) },
    description : { None, Some(JStr(LongDescription)), Some(JStr(<<"s", "h", "o", "r", "t">>)),
                    Some(JInt(5)), Some(JStr(<<"I", " ", "cannot", " ", "s", "a", "y">>)) },
    price : { None, Some(JInt(9900)), Some(JStr(<<"W", "1", "0", ",", "0", "0", "0">>)),
              Some(JStr(<<"f", "r", "e", "e">>)), Some(JNull), Some(JInt(-5)) } ]

\* The prose a model answer may put before and after the object.
Prefixes ==
  { << >>, <<"S", "u", "r", "e", "!", " ">>, <<"s", "e", "e", " ", "{", "x", "}", " ">>,
    <<"I", " ", "cannot", " ", "b", "u", "t", " ">> }

Suffixes == { << >>, <<" ", "o", "k">>, <<" ", "}">> }

\* A model answer built around an object: [ obj, prefix, suffix, fenced ].
AnswerText(e) ==
  e.prefix
    \o (IF e.fenced THEN <<Ticks, "json", "\n">> ELSE << >>)
    \o dumps(ObjectOf(e.obj))
    \o (IF e.fenced THEN <<"\n", Ticks>> ELSE << >>)
    \o e.suffix

NoObject ==
  [ obj |-> [ name |-> None, category |-> None, description |-> None, price |-> None ],
    prefix |-> << >>, suffix |-> << >>, fenced |-> FALSE ]

\* What generate_with_image may do: raise, or return a text; embedded tells
\* the object the text was written around, if it was.
ModelOutcomes ==
  { [ raised |-> TRUE, text |-> << >>, embedded |-> FALSE, e |-> NoObject ] }
  \cup { [ raised |-> FALSE, text |-> t, embedded |-> FALSE, e |-> NoObject ] :
           t \in { << >>, <<"h", "i">>, <<"[", "1", ",", "2", "]">>, <<"null">>,
                   <<"S", "o", "r", "r", "y", ",", " ", "cannot", " ", "assist">>,
                   <<"{", "\"", "name", "\"", ":", " ", "}">> } }
  \cup { [ raised |-> FALSE, text |-> AnswerText(e), embedded |-> TRUE, e |-> e ] :
           e \in [ obj : ModelObjects, prefix : Prefixes, suffix : Suffixes,
                   fenced : BOOLEAN ] }

Filenames == { <<"a", ".", "j", "p", "g">>, <<"b">> }

EMBEDDING_DIM == 768

\* [0.0] * 768, and a vector generate_embedding returned
Zeros == [ kind |-> "zeros", dim |-> EMBEDDING_DIM ]
Embedded == [ kind |-> "embedding", dim |-> EMBEDDING_DIM ]

\* The dict of the except block (texts in English).
FallbackRecord(filename) ==
  [ name |-> JStr(<<"registered product (">> \o filename \o <<")">>),
    category |-> JStr(<<"Etc">>),
    description |-> JStr(<<"image analysis failed, edit the product in admin mode">>),
    price |-> 0,
    vector |-> Zeros ]

NoRecord ==
  [ name |-> JNull, category |-> JNull, description |-> JNull, price |-> 0,
    vector |-> Zeros ]

\* The except block of analyze_image: the handler returns the fallback dict.
except_block(a, why) ==
  [ a EXCEPT !.pc = "respond", !.raised = why, !.result = FallbackRecord(a.filename) ]

\* The image is read and generate_with_image is called.
generate ==
  /\ an.pc = "generate"
  /\ \E o \in ModelOutcomes :
       LET a == [ an EXCEPT !.outcome = o ] IN
         IF o.raised THEN an' = except_block(a, "generate_with_image")
         ELSE an' = [ a EXCEPT !.pc = "safety", !.generated_text = o.text ]
  /\ UNCHANGED <<catalog, last, req>>

\* A check that knows one marker only.
safety_filter_one_marker(text) == contains(text, <<"cannot", " ", "assist">>)

\* [Safety Check] the condition of the raise
safety_filter(text) ==
  contains(text, <<"cannot", " ", "assist">>) \/ contains(text, <<"I", " ", "cannot">>)

safety_check ==
  /\ an.pc = "safety"
  /\ IF safety_filter(an.generated_text)
     THEN an' = except_block(an, "AI Safety Filter Triggered")
     ELSE an' = [ an EXCEPT !.pc = "parse" ]
  /\ UNCHANGED <<catalog, last, req>>

\* [Parsing] product_data after the inner try block
extract_json(text) ==
  LET m == re_search(text)
      r == IF IsNone(m) THEN json_loads(text) ELSE json_loads(re_sub_fence(Val(m)))
  IN  IF r.ok THEN r.val ELSE JDict(<< >>)

parse ==
  /\ an.pc = "parse"
  /\ an' = [ an EXCEPT !.pc = "validate", !.extracted = TRUE,
               !.product_data = extract_json(an.generated_text) ]
  /\ UNCHANGED <<catalog, last, req>>

\* token in v: a substring of a str, an element of a list, a key of a dict;
\* a TypeError for an int.
py_in_raises(v) == v.t = "int"

py_in(token, v) ==
  CASE v.t = "str" -> contains(v.s, <<token>>)
    [] v.t = "list" -> \E i \in DOMAIN v.items : v.items[i].v = JStr(<<token>>)
    [] v.t = "dict" -> \E i \in DOMAIN v.items : v.items[i].k = <<token>>
    [] OTHER -> FALSE

\* len(v): the characters of a str, the elements of a list or dict;
\* a TypeError for an int.
py_len_raises(v) == v.t = "int"

py_len_of(v) == IF v.t = "str" THEN py_len(v.s) ELSE Len(v.items)

name_fallback(filename) ==
  JStr(<<"AI recommended product (">> \o split_dot_first(filename) \o <<")">>)

\* The name validation: [ raised, val ].
validate_name(product_data, filename) ==
  LET final_name == Val(dict_get(product_data.items, "name", Some(JNull))) IN
    IF py_falsy(final_name) THEN [ raised |-> FALSE, val |-> name_fallback(filename) ]
    ELSE IF py_in_raises(final_name) THEN [ raised |-> TRUE, val |-> final_name ]
    ELSE IF py_in(NameToken, final_name) \/ py_in("JSON", final_name)
    THEN [ raised |-> FALSE, val |-> name_fallback(filename) ]
    ELSE [ raised |-> FALSE, val |-> final_name ]

MinDescriptionLen == 10

desc_fallback == JStr(<<"a product recommended by AI from the image, stylish and of fine quality">>)

\* The description validation: [ raised, val ].
validate_desc(product_data) ==
  LET final_desc == Val(dict_get(product_data.items, "description", Some(JNull))) IN
    IF py_falsy(final_desc) THEN [ raised |-> FALSE, val |-> desc_fallback ]
    ELSE IF py_len_raises(final_desc) THEN [ raised |-> TRUE, val |-> final_desc ]
    ELSE IF py_len_of(final_desc) < MinDescriptionLen
    THEN [ raised |-> FALSE, val |-> desc_fallback ]
    ELSE [ raised |-> FALSE, val |-> final_desc ]

\* product_data.get("category", "Uncategorized")
category_of(product_data) ==
  Val(dict_get(product_data.items, "category", Some(JStr(<<"Uncategorized">>))))

\* A price handling that only drops the thousands separators.
price_commas_only(product_data) ==
  LET raw_price == py_str(Val(dict_get(product_data.items, "price", Some(JInt(0)))))
      kept == SelectSeq(raw_price, LAMBDA c : c # ",")
  IN  IF kept = << >> \/ \E i \in DOMAIN kept : ~IsDigit(kept[i]) THEN 0
      ELSE int_of_digits(kept)

\* The price handling: int(...) of no digit is a ValueError, caught: 0.
price_of(product_data) ==
  LET raw_price == py_str(Val(dict_get(product_data.items, "price", Some(JInt(0)))))
      digits == re_sub_nondigits(raw_price)
  IN  IF digits = << >> THEN 0 ELSE int_of_digits(digits)

\* [Data Validation & Fallback]: .get on what is no dict is an
\* AttributeError, `in` and len on an int a TypeError.
validate ==
  /\ an.pc = "validate"
  /\ IF an.product_data.t # "dict" THEN an' = except_block(an, "AttributeError")
     ELSE LET nm == validate_name(an.product_data, an.filename)
              ds == validate_desc(an.product_data)
          IN  IF nm.raised \/ ds.raised THEN an' = except_block(an, "TypeError")
              ELSE an' = [ an EXCEPT !.pc = "embed",
                             !.final_name = nm.val,
                             !.final_desc = ds.val,
                             !.final_cat = category_of(an.product_data),
                             !.price = price_of(an.product_data) ]
  /\ UNCHANGED <<catalog, last, req>>

\* generate_embedding returns a vector or raises; then the dict is returned.
embed ==
  /\ an.pc = "embed"
  /\ \/ an' = [ an EXCEPT !.pc = "respond",
                  !.result = [ name |-> an.final_name, category |-> an.final_cat,
                               description |-> an.final_desc, price |-> an.price,
                               vector |-> Embedded ] ]
     \/ an' = except_block(an, "generate_embedding")
  /\ UNCHANGED <<catalog, last, req>>

\* response_model=ImageAnalysisResponse: name, category, description are
\* str, price is int, vector is a list of float.
ImageAnalysisResponse(d) ==
  /\ d.name.t = "str"
  /\ d.category.t = "str"
  /\ d.description.t = "str"
  /\ d.price \in Int
  /\ d.vector.dim >= 0

\* The returned dict is validated against the response model; one that
\* does not fit is a server error.
respond_image ==
  /\ an.pc = "respond"
  /\ an' = [ an EXCEPT !.pc = "done",
               !.response = IF ImageAnalysisResponse(an.result)
                            THEN [ kind |-> "record", body |-> an.result ]
                            ELSE [ kind |-> "error", body |-> NoRecord ] ]
  /\ UNCHANGED <<catalog, last, req>>

InitAnalyze ==
  /\ catalog = << >>
  /\ last = NoCall
  /\ req = NoReq
  /\ \E filename \in Filenames :
       an = [ pc |-> "generate", filename |-> filename,
              outcome |-> [ raised |-> FALSE, text |-> << >>, embedded |-> FALSE,
                            e |-> NoObject ],
              generated_text |-> << >>, extracted |-> FALSE,
              product_data |-> JDict(<< >>), raised |-> "",
              final_name |-> JNull, final_desc |-> JNull, final_cat |-> JNull,
              price |-> 0, result |-> NoRecord,
              response |-> [ kind |-> "none", body |-> NoRecord ] ]

NextAnalyze ==
  \/ generate
  \/ safety_check
  \/ parse
  \/ validate
  \/ embed
  \/ respond_image

SpecAnalyze == InitAnalyze /\ [][NextAnalyze]_vars

\* ------------------------------------------------------ claims on the search
SqDist(p, a) ==
  (Val(p.embedding)[1] - a.query_vector[1]) * (Val(p.embedding)[1] - a.query_vector[1])
    + (Val(p.embedding)[2] - a.query_vector[2]) * (Val(p.embedding)[2] - a.query_vector[2])

Eligible(p) ==
  IsNone(p.deleted_at) /\ p.is_active = Some(TRUE) /\ p.embedding # None

\* The ids of the catalog that pass eligibility, threshold and the optional
\* filters of the call a.
Qualifying(a) ==
  { id \in DOMAIN catalog :
      LET p == catalog[id] IN
        /\ Eligible(p)
        /\ SqDist(p, a) < a.threshold * a.threshold
        /\ a.min_price # None => (p.price # None /\ Val(p.price) >= Val(a.min_price))
        /\ a.max_price # None => (p.price # None /\ Val(p.price) <= Val(a.max_price))
        /\ a.exclude_id # None => id \notin Val(a.exclude_id)
        /\ a.exclude_category # None =>
             (p.category # None /\ Val(p.category) \notin Val(a.exclude_category)) }

Searched == last.op = "search_by_vector"

ReturnedIds == { last.ret[i].id : i \in DOMAIN last.ret }

\* C4: every item search_by_vector returns is not deleted, is active, has an
\* embedding and lies strictly closer to the query than the threshold; an
\* item at exactly the threshold is not returned.
C4_ReturnedAreEligibleAndNear ==
  Searched =>
    \A i \in DOMAIN last.ret :
      LET r == last.ret[i] IN
        /\ r.id \in DOMAIN catalog /\ r.p = catalog[r.id]
        /\ Eligible(r.p)
        /\ SqDist(r.p, last.args) < last.args.threshold * last.args.threshold
        /\ SqDist(r.p, last.args) # last.args.threshold * last.args.threshold

\* C4 witness: an unfiltered search returned an item while an eligible item
\* at exactly the threshold stayed out.
C4_Witness ==
  /\ Searched
  /\ last.ret # << >>
  /\ \E id \in DOMAIN catalog \ ReturnedIds :
          /\ Eligible(catalog[id])
          /\ SqDist(catalog[id], last.args) = last.args.threshold * last.args.threshold
          /\ last.args.exclude_id = None /\ last.args.exclude_category = None
          /\ last.args.min_price = None /\ last.args.max_price = None

\* C5: the returned list is the first min(limit, k) of the k qualifying
\* items in ascending distance: distances never decrease along the list and
\* no omitted qualifying item is strictly closer than a returned one.
C5_FirstOfQualifyingByDistance ==
  Searched =>
    LET a == last.args
        Q == Qualifying(a)
    IN  /\ Len(last.ret) = Min(a.limit, Cardinality(Q))
        /\ ReturnedIds \subseteq Q
        /\ \A i, j \in DOMAIN last.ret :
             /\ i # j => last.ret[i].id # last.ret[j].id
             /\ i < j => SqDist(last.ret[i].p, a) <= SqDist(last.ret[j].p, a)
        /\ \A i \in DOMAIN last.ret : last.ret[i].p = catalog[last.ret[i].id]
        /\ \A o \in Q \ ReturnedIds : \A i \in DOMAIN last.ret :
             ~(SqDist(catalog[o], a) < SqDist(last.ret[i].p, a))

\* C5 witness: the cap cut a strictly farther qualifying item off.
C5_Witness ==
  /\ Searched
  /\ Len(last.ret) = last.args.limit
  /\ \E o \in Qualifying(last.args) \ ReturnedIds :
       SqDist(catalog[o], last.args) > SqDist(last.ret[Len(last.ret)].p, last.args)
\* --------------------------------------------------- claims on ai_search
\* A stored row the public schema accepts once its nulls are defaulted.
RowIsValid(row) ==
  /\ row.p.price # None => Val(row.p.price) >= 0
  /\ row.p.stock_quantity # None => Val(row.p.stock_quantity) >= 0

Sanitized == req.pc = "return" \/ (req.pc = "done" /\ req.db = "returned")

\* C6: the product list of ai_search is an order-preserving subsequence of
\* the retrieved rows: every row that passes validation appears exactly
\* once, every other row is dropped, nothing is put in its place and the
\* request still succeeds.
C6_SanitizedIsSubsequence ==
  Sanitized =>
    LET res == Val(req.results)
        out == req.product_responses
        V == { i \in DOMAIN res : RowIsValid(res[i]) }
    IN  /\ Len(out) = Cardinality(V)
        /\ Len(out) <= Len(res)
        /\ \E f \in [ DOMAIN out -> V ] :
             /\ \A i, j \in DOMAIN out : i < j => f[i] < f[j]
             /\ \A i \in DOMAIN out : out[i].id = res[f[i]].id
        /\ req.pc = "done" =>
             /\ req.response.kind = "SUCCESS"
             /\ req.response.products = out

\* C6 witness: three rows retrieved, the middle one invalid, two answered.
C6_Witness ==
  /\ req.pc = "done"
  /\ req.db = "returned"
  /\ Len(Val(req.results)) = 3
  /\ RowIsValid(Val(req.results)[1])
  /\ ~RowIsValid(Val(req.results)[2])
  /\ RowIsValid(Val(req.results)[3])
  /\ Len(req.response.products) = 2

Routed == req.pc \in { "process", "check", "search", "sanitize", "return", "done" }
           /\ req.path_response # NoPathResponse

\* The routing call failed or its answer names no known path.
RoutingFailed(r) ==
  \/ r.exc # "none"
  \/ r.status_code # 200
  \/ r.body # "object"
  \/ r.path \notin { Some(Some("INTERNAL")), Some(Some("EXTERNAL")) }

\* C7: whatever the determine-path call comes back with, the search goes on
\* to the embedding call with a search_path that is INTERNAL or EXTERNAL,
\* INTERNAL whenever the routing call failed or was malformed, and that is
\* the search_path it returns.
C7_PathIsInternalOrExternal ==
  /\ Routed =>
       /\ req.search_path \in { Some("INTERNAL"), Some("EXTERNAL") }
       /\ RoutingFailed(req.path_response) => req.search_path = Some("INTERNAL")
  /\ (req.pc = "done" /\ req.response.kind = "SUCCESS") =>
       req.response.search_path \in { Some("INTERNAL"), Some("EXTERNAL") }

ServiceUnavailable ==
  [ status_code |-> 503, detail |-> "AI service connection failed" ]
UpstreamAnalysisError ==
  [ status_code |-> 502, detail |-> "AI analysis service error" ]
EmptyAnalysisError ==
  [ status_code |-> 500, detail |-> "AI vector generation failed (Empty Vector)" ]
StorageError ==
  [ status_code |-> 500, detail |-> "database vector search error" ]

Failure(resp) == [ status_code |-> resp.status_code, detail |-> resp.detail ]

EmbeddingAnswered(r) == r.exc = "none" /\ r.status_code = 200 /\ r.body = "object"

VectorIsEmpty(r) ==
  r.vector = None \/ Val(r.vector).t = "null" \/ Val(r.vector).v = << >>

\* C8: a finished ai_search request that reached the embedding call ends in
\* one of pairwise distinct outcomes: transport failure -> service
\* unavailable, non-success status -> upstream analysis error, empty vector
\* -> empty-analysis error with no retrieval, retrieval exception -> storage
\* error, and SUCCESS only when none of these happened.
C8_FailuresAreClassified ==
  (req.pc = "done" /\ req.endpoint # "") =>
    LET r == req.ai_data_response
        resp == req.response
    IN  /\ Cardinality({ ServiceUnavailable, UpstreamAnalysisError,
                         EmptyAnalysisError, StorageError }) = 4
        /\ r.exc # "none" =>
             resp.kind = "HTTPException" /\ Failure(resp) = ServiceUnavailable
        /\ (r.exc = "none" /\ r.status_code # 200) =>
             resp.kind = "HTTPException" /\ Failure(resp) = UpstreamAnalysisError
        /\ (EmbeddingAnswered(r) /\ VectorIsEmpty(r)) =>
             /\ resp.kind = "HTTPException" /\ Failure(resp) = EmptyAnalysisError
             /\ req.db = "not_called"
        /\ req.db = "raised" =>
             resp.kind = "HTTPException" /\ Failure(resp) = StorageError
        /\ resp.kind = "SUCCESS" =>
             /\ EmbeddingAnswered(r) /\ ~VectorIsEmpty(r)
             /\ req.db = "returned"
        /\ resp.kind # "SUCCESS" =>
             \/ r.exc # "none" \/ r.status_code # 200 \/ r.body # "object"
             \/ VectorIsEmpty(r) \/ req.db = "raised"

\* C8 witness: the embedding call answered 200 with an empty vector list and
\* the request ended in the empty-analysis error before any retrieval.
C8_Witness ==
  /\ req.pc = "done"
  /\ EmbeddingAnswered(req.ai_data_response)
  /\ req.ai_data_response.vector = Some(JsonList(<< >>))
  /\ Failure(req.response) = EmptyAnalysisError
  /\ req.db = "not_called"
\* ------------------------------------------------ claims on analyze_image
Answered == an.pc = "done"

IsRecord(r) ==
  /\ r.kind = "record"
  /\ r.body.name.t = "str"
  /\ r.body.category.t = "str"
  /\ r.body.description.t = "str"
  /\ r.body.price \in Int
  /\ r.body.vector.kind \in { "zeros", "embedding" }

\* C1: whatever the model does, analyze_image answers with a complete record
\* { name: string, category: string, description: string, price: integer,
\* vector: list of numbers } and never with an error.
C1_AlwaysAValidRecord == Answered => IsRecord(an.response)

\* A refusal marker somewhere in the text.
HasRefusalMarker(text) ==
  \E i \in 1..(Len(text) - 2) :
    \/ text[i] = "cannot" /\ text[i + 1] = " " /\ text[i + 2] = "assist"
    \/ text[i] = "I" /\ text[i + 1] = " " /\ text[i + 2] = "cannot"

Refused == ~an.outcome.raised /\ HasRefusalMarker(an.outcome.text)

\* C2: when the raw text holds a refusal marker, nothing is extracted or
\* parsed and every returned field is the fallback value, which the raw
\* text has no part in; price is 0.
C2_RefusalGivesFullFallback ==
  /\ (an.pc \notin { "generate", "safety" } /\ Refused) =>
       /\ an.pc \in { "respond", "done" }
       /\ ~an.extracted
       /\ an.product_data = JDict(<< >>)
  /\ (Answered /\ Refused) =>
       /\ an.response.kind = "record"
       /\ an.response.body.name = JStr(<<"registered product (">> \o an.filename \o <<")">>)
       /\ an.response.body.category = JStr(<<"Etc">>)
       /\ an.response.body.description
            = JStr(<<"image analysis failed, edit the product in admin mode">>)
       /\ an.response.body.price = 0
       /\ an.response.body.vector = [ kind |-> "zeros", dim |-> 768 ]

\* C2 witness: an otherwise valid object whose description says "I cannot",
\* answered with the fallback record.
C2_Witness ==
  /\ Answered
  /\ an.outcome.embedded
  /\ an.outcome.e.prefix = << >>
  /\ an.outcome.e.suffix = << >>
  /\ an.outcome.e.obj.name = Some(JStr(<<"R", "e", "d">>))
  /\ an.outcome.e.obj.price = Some(JInt(9900))
  /\ an.outcome.e.obj.description = Some(JStr(<<"I", " ", "cannot", " ", "s", "a", "y">>))
  /\ an.response.body.price = 0
  /\ an.response.body.category = JStr(<<"Etc">>)

\* C3: for a text without refusal marker that is one valid object, fenced
\* or not, with any prose around it, the extraction step yields exactly
\* the fields of that object.
C3_ExtractionRecoversTheObject ==
  (an.extracted /\ an.outcome.embedded) =>
    an.product_data = ObjectOf(an.outcome.e.obj)

\* The price pair of the parsed object, absent if there is none.
ExtractedField(key) ==
  LET items == an.product_data.items
      at == { i \in DOMAIN items : items[i].k = <<key>> }
  IN  IF at = {} THEN None
      ELSE Some(items[CHOOSE i \in at : \A j \in at : j <= i].v)

\* The digits of a tuple of digits, read as a decimal number.
RECURSIVE Decimal(_, _)
Decimal(ds, acc) ==
  IF ds = << >> THEN acc ELSE Decimal(Tail(ds), 10 * acc + DigitVal(Head(ds)))

\* The number the digits of the stringified price form, 0 if it has none.
ExpectedPrice ==
  LET f == ExtractedField("price") IN
    IF f = None THEN 0
    ELSE CASE Val(f).t = "str" -> Decimal(SelectSeq(Val(f).s, IsDigit), 0)
           [] Val(f).t = "int" -> IF Val(f).n < 0 THEN 0 - Val(f).n ELSE Val(f).n
           [] OTHER -> 0

\* The field validation has run to its end.
Validated == an.pc \in { "embed", "respond", "done" } /\ an.raised \in { "", "generate_embedding" }

NameIsValid(v) ==
  /\ v.t = "str"
  /\ v.s # << >>
  /\ \A i \in DOMAIN v.s : v.s[i] \notin { "sangpummyeong", "JSON" }

DescriptionIsValid(v) == v.t = "str" /\ py_len(v.s) >= 10

\* C10: the four fields are validated one by one: a field that is valid
\* is answered with its extracted value whatever the other fields are,
\* and only an invalid field is replaced by its fallback.
C10_FieldsAreIndependent ==
  (Answered /\ an.extracted /\ an.product_data.t = "dict"
     /\ an.raised # "generate_embedding") =>
    LET nm == ExtractedField("name")
        ds == ExtractedField("description")
        ct == ExtractedField("category")
    IN  /\ an.response.kind = "record"
        /\ (nm # None /\ NameIsValid(Val(nm))) => an.response.body.name = Val(nm)
        /\ (ds # None /\ DescriptionIsValid(Val(ds))) => an.response.body.description = Val(ds)
        /\ (ct # None /\ Val(ct).t = "str") => an.response.body.category = Val(ct)
        /\ an.response.body.price = ExpectedPrice
====
